---- MODULE Spec2Model ----
(***************************************************************************)
(* ConstructFlow blueprint annotation: the BlueprintViewer page and the    *)
(* BlueprintCanvas component it owns, as one state machine.                *)
(*                                                                         *)
(* Every action is one event handler (or one resumption of an async        *)
(* handler) together with the React effects its state changes trigger.    *)
(* State updater functions run once per update (production React).        *)
(* Coordinates are JavaScript numbers; they are modelled as exact          *)
(* rationals <<numerator, denominator>>, so rounding is abstracted away.   *)
(***************************************************************************)
EXTENDS Integers, Sequences, FiniteSets, TLC

VARIABLES
    currentUser,        \* auth context: the signed-in user, or Null
    showAuthModal,      \* header state: the auth modal is open
    authForm,           \* auth modal state: email, password, error message
    authCall,           \* the auth backend call in flight, or Null
    authLog,            \* observer: the auth backend calls made, in order
    isAdmin,            \* userProfile?.role === "admin"
    currentUid,         \* userProfile?.uid || null
    blueprintName,      \* page state
    isDirty,            \* page state: unsaved changes
    saving,             \* page state: a save is in flight
    saveJob,            \* the saveBlueprint call in flight, or Null
    deleteJob,          \* the deleteBlueprint call in flight, or Null
    nextDoc,            \* documents addDoc has created in the store
    persists,           \* the persistCompletion calls in flight
    toggles,            \* observer: completion toggles so far
    db,                 \* the "blueprints" collection of the store
    savedBlueprints,    \* page state: list fetched from the store
    blueprintImage,     \* page state: image URL or NoImage
    currentBlueprintId, \* page state
    objects,            \* page state: the annotation list
    activeObjectId,     \* page state
    selectedObjectId,   \* page state
    loading,            \* page state: an image upload is in flight
    nextId,             \* module counter _nextId
    currentPoints,      \* canvas state: point buffer
    redoStack,          \* canvas state: redo buffer
    mousePos,           \* canvas state: last-known pointer position
    dragging,           \* canvas state
    dragRef,            \* canvas ref: the drag session
    imgRect,            \* canvas state: rendered rect of the image
    naturalSize,        \* canvas state: natural size of the image
    dom,                \* browser: layout of container and image
    imgNatural,         \* browser: naturalWidth x naturalHeight of the <img>; Null when 0
    imgPending,         \* browser: the <img> is fetching its src
    fetching,           \* a fetchBlueprints call is in flight
    drags,              \* observer: drag sessions opened so far
    emitted,            \* observer: what the last handler did, in order
    lastOp,             \* observer: what the last handler was
    before,             \* observer: the buffers the last handler started from
    pointer,            \* observer: where the pointer was in the last drag move
    finishes            \* observer: identifiers reported finished, in order

vars == <<currentUser, showAuthModal, authForm, authCall, authLog, isAdmin, currentUid, blueprintName, isDirty, saving, saveJob, deleteJob,
          nextDoc,
          persists, toggles, db, savedBlueprints, blueprintImage, currentBlueprintId, objects,
          activeObjectId, selectedObjectId, loading, nextId, currentPoints, redoStack,
          mousePos, dragging, dragRef, imgRect, naturalSize, dom, imgNatural, imgPending,
          fetching, drags, emitted, lastOp, before, pointer, finishes>>

pageVars == <<savedBlueprints, blueprintImage, currentBlueprintId, objects,
              activeObjectId, selectedObjectId, loading, nextId>>
saveVars == <<blueprintName, saving, saveJob, deleteJob, nextDoc>>
authVars == <<currentUser, showAuthModal, authForm, authCall, authLog>>
roleVars == <<authVars, isAdmin, currentUid, persists, toggles>>
drawVars == <<currentPoints, redoStack, mousePos>>
dragVars == <<dragging, dragRef, drags>>
frameVars == <<imgRect, naturalSize, dom, imgNatural, imgPending>>

----------------------------------------------------------------------------
\* Bounds of the model

\* identifiers makeId may hand out in one session
MaxIds == 1
\* the same, where the user switches from one drawing to another
MaxIdsSwitch == 2
\* longest point buffer a click may extend
MaxPts == 3
\* drag sessions that may be opened
MaxDrags == 1
\* auth backend calls
MaxCalls == 3
\* documents addDoc may create
MaxDocs == 1
\* completion toggles
MaxToggles == 2

----------------------------------------------------------------------------
\* Numbers: exact rationals <<n, d>> with d > 0 in lowest terms

RECURSIVE GCD(_, _)
GCD(a, b) == IF b = 0 THEN a ELSE GCD(b, a % b)

Abs(n) == IF n < 0 THEN -n ELSE n

Rat(n, d) ==
    LET s == IF d < 0 THEN -1 ELSE 1
        g == GCD(Abs(n), Abs(d))
    IN  <<(s * n) \div g, (s * d) \div g>>

Num(n) == <<n, 1>>
RAdd(a, b) == Rat(a[1] * b[2] + b[1] * a[2], a[2] * b[2])
RMul(a, b) == Rat(a[1] * b[1], a[2] * b[2])
RDiv(a, b) == Rat(a[1] * b[2], a[2] * b[1])

----------------------------------------------------------------------------
\* Values

Null == [null |-> TRUE]
NoId == <<>>
NoImage == ""

Types == {"pipe", "connection"}

\* Pointer positions (clientX, clientY) the events carry
Clients == {[x |-> 1, y |-> 1], [x |-> 3, y |-> 2]}
\* a user who keeps the pointer in one place
OneClient == {[x |-> 3, y |-> 2]}

\* Layouts the browser may give the container and the image: bounding rects in
\* client pixels (c = container, i = image)
Layouts ==
    { [cLeft |-> 1, cTop |-> 0, iLeft |-> 1, iTop |-> 0, iW |-> 2, iH |-> 2],
      [cLeft |-> 0, cTop |-> 0, iLeft |-> 1, iTop |-> 1, iW |-> 4, iH |-> 2] }

\* the layout of a page that is not displayed: every box is empty
Collapsed == {[cLeft |-> 0, cTop |-> 0, iLeft |-> 0, iTop |-> 0, iW |-> 0, iH |-> 0]}

\* Natural (decoded) size of the image behind each URL
Urls == {"u1", "u2"}
NaturalOf(url) == IF url = "u1" THEN [w |-> 4, h |-> 2] ELSE [w |-> 2, h |-> 4]

\* Date.now() of this session and of the earlier session that wrote the store
Now == 1
Earlier == 0

Pt(x, y) == [x |-> Num(x), y |-> Num(y)]

\* Who looks at the page: nobody signed in, or one of two workers
NoUid == ""
Viewers == {NoUid, "w1", "w2"}
AdminUid == "a1"

\* name handleImageUpload derives from the uploaded file
FileName == "file"

\* The store as an earlier session left it: one blueprint with one finished
\* pipe, assigned to the given worker or to nobody
StoredObject(assignee) ==
    [id |-> <<Earlier, 1>>, type |-> "pipe", pathPoints |-> <<Pt(0, 0), Pt(2, 1)>>,
     assignedTo |-> assignee, completed |-> FALSE]
StoredBlueprint(assignee) ==
    [id |-> "b1", name |-> "plan", imageUrl |-> "u1", createdAt |-> Earlier,
     objects |-> <<StoredObject(assignee)>>]

\* the same blueprint with a second element, a connection of the same worker
StoredPair(assignee) ==
    [StoredBlueprint(assignee) EXCEPT !.objects =
        <<StoredObject(assignee),
          [id |-> <<Earlier, 2>>, type |-> "connection",
           pathPoints |-> <<Pt(1, 0), Pt(1, 1)>>,
           assignedTo |-> assignee, completed |-> FALSE]>>]

\* the stores a session may find: for an admin the pipe is assigned to w1; a
\* worker may also find two elements assigned to w1
Stores(admin) ==
    IF admin THEN {<<StoredBlueprint("w1")>>}
    ELSE {<<StoredBlueprint(a)>> : a \in {NoUid, "w1"}} \cup {<<StoredPair("w1")>>}

NoBlueprint == ""

----------------------------------------------------------------------------
\* Observers: what a handler emitted, and which operations ran last

PathUpdated(id, points) == [t |-> "pathUpdated", id |-> id, points |-> points]
Finished(id) == [t |-> "finished", id |-> id]
Selected(id) == [t |-> "selected", id |-> id]
Cleared == [t |-> "cleared"]

Buffers == [pts |-> currentPoints, redo |-> redoStack]

\* handlers whose starting buffers are kept for the state after them
KeepOps == {"undo", "finish", "abandon", "startDrawing", "cancel", "delete", "load"}

\* the observers after a handler: its name, what it emitted, and the buffers
\* it started from (for an undo, kept over the redo or click that follows it)
ObsAt(op, em, at) ==
    /\ emitted' = em
    /\ lastOp' = op
    /\ before' = IF op \in KeepOps THEN Buffers
                 ELSE IF op \in {"redo", "click"} /\ lastOp = "undo" THEN before
                 ELSE Null
    /\ pointer' = at
    /\ finishes' = finishes \o
                   [i \in 1..Len(SelectSeq(em, LAMBDA n : n.t = "finished")) |->
                       SelectSeq(em, LAMBDA n : n.t = "finished")[i].id]

Obs(op, em) == ObsAt(op, em, Null)

----------------------------------------------------------------------------
\* BlueprintViewer: pure parts

\* an identifier made of the counter alone
makeIdCounterOnly(now, n) == <<Earlier, n>>

makeId(now, n) == <<now, n>>

\* The props the page hands to the canvas
CanvasActive == IF isAdmin THEN activeObjectId ELSE NoId
isWorker == ~isAdmin

HasId(objs, id) == \E i \in 1..Len(objs) : objs[i].id = id
Find(objs, id) == objs[CHOOSE i \in 1..Len(objs) :
                         objs[i].id = id /\ \A j \in 1..(i - 1) : objs[j].id # id]
Without(objs, id) == SelectSeq(objs, LAMBDA o : o.id # id)

\* a cancel that leaves the list alone
cancelUpdaterKeeps(prev, aid) == prev

\* the updater cancelActiveDrawing hands to setObjects
cancelUpdater(prev, aid) ==
    IF ~HasId(prev, aid) THEN prev
    ELSE IF Len(Find(prev, aid).pathPoints) = 0 THEN Without(prev, aid)
    ELSE [i \in 1..Len(prev) |->
            IF prev[i].id = aid THEN [prev[i] EXCEPT !.drawing = FALSE] ELSE prev[i]]

handlePathUpdate(prev, id, points) ==
    [i \in 1..Len(prev) |->
        IF prev[i].id = id THEN [prev[i] EXCEPT !.pathPoints = points] ELSE prev[i]]

handleFinishDrawing(prev, id) ==
    [i \in 1..Len(prev) |->
        IF prev[i].id = id THEN [prev[i] EXCEPT !.drawing = FALSE] ELSE prev[i]]

\* an effect that forgets the viewer's role
dirtiedAnyRole == TRUE

\* the effect on [objects]: an admin's list that changed is dirty
dirtied == IF isAdmin THEN TRUE ELSE isDirty

\* what saveBlueprint writes for each object
storedObjects(objs) ==
    [i \in 1..Len(objs) |->
        [id |-> objs[i].id, type |-> objs[i].type, pathPoints |-> objs[i].pathPoints,
         assignedTo |-> objs[i].assignedTo, completed |-> objs[i].completed]]

\* String.prototype.trim on the names the model uses
trim(name) == IF name = " " THEN "" ELSE name

\* identifiers the store gives to new documents
DocId(n) == IF n = 1 THEN "b2" ELSE IF n = 2 THEN "b3" ELSE "b4"

HasDoc(store, id) == \E k \in 1..Len(store) : store[k].id = id

\* updateDoc(doc(db, "blueprints", id), fields)
updateDoc(store, id, name, imageUrl, objs) ==
    [k \in 1..Len(store) |->
        IF store[k].id = id
        THEN [store[k] EXCEPT !.name = name, !.imageUrl = imageUrl, !.objects = objs]
        ELSE store[k]]

\* fetchBlueprints' list.sort: newest first, equal ages in store order
RECURSIVE sortByCreated(_)
sortByCreated(list) ==
    IF list = <<>> THEN <<>>
    ELSE LET h == Head(list)
             rest == sortByCreated(Tail(list))
             older == {k \in 1..Len(rest) : rest[k].createdAt <= h.createdAt}
             at == IF older = {} THEN Len(rest) + 1
                   ELSE CHOOSE k \in older : \A m \in older : k <= m
         IN  SubSeq(rest, 1, at - 1) \o <<h>> \o SubSeq(rest, at, Len(rest))

\* a selection that ignores the drawing in progress
selectAlways(id) == id

\* onObjectSelected and the section-card onClick
selectIfIdle(id) == IF activeObjectId = NoId THEN id ELSE selectedObjectId

\* loadBlueprint's conversion of a stored record's objects
loadedObjects(bp) ==
    [i \in 1..Len(bp.objects) |->
        [id |-> bp.objects[i].id, type |-> bp.objects[i].type,
         pathPoints |-> bp.objects[i].pathPoints,
         assignedTo |-> bp.objects[i].assignedTo, completed |-> bp.objects[i].completed,
         drawing |-> FALSE]]

----------------------------------------------------------------------------
\* BlueprintCanvas: pure parts

FrameValid == imgRect # Null /\ naturalSize # Null
SvgRendered == blueprintImage # NoImage /\ FrameValid

\* the overlay, placed at the measured rectangle, has an area the pointer
\* can be over
OverlayHit == SvgRendered /\ imgRect.width > 0 /\ imgRect.height > 0

measured(layout) ==
    [left |-> layout.iLeft - layout.cLeft, top |-> layout.iTop - layout.cTop,
     width |-> layout.iW, height |-> layout.iH]

\* a conversion that scales both axes by the horizontal ratio
clientToSvgOneScale(c) ==
    IF ~FrameValid \/ blueprintImage = NoImage THEN Pt(0, 0)
    ELSE LET relX == c.x - dom.cLeft - imgRect.left
             relY == c.y - dom.cTop - imgRect.top
         IN  [x |-> RMul(RDiv(Num(relX), Num(imgRect.width)), Num(naturalSize.w)),
              y |-> RMul(RDiv(Num(relY), Num(imgRect.width)), Num(naturalSize.w))]

\* a conversion that forgets the image's offset within the container
clientToSvgNoOffset(c) ==
    IF ~FrameValid \/ blueprintImage = NoImage THEN Pt(0, 0)
    ELSE LET relX == c.x - dom.cLeft
             relY == c.y - dom.cTop
         IN  [x |-> RMul(RDiv(Num(relX), Num(imgRect.width)), Num(naturalSize.w)),
              y |-> RMul(RDiv(Num(relY), Num(imgRect.height)), Num(naturalSize.h))]

\* the overlay's placement and viewBox: where the browser draws an image-space
\* point, in client pixels
svgToClient(p) ==
    [x |-> RAdd(Num(dom.cLeft + imgRect.left),
                RDiv(RMul(p.x, Num(imgRect.width)), Num(naturalSize.w))),
     y |-> RAdd(Num(dom.cTop + imgRect.top),
                RDiv(RMul(p.y, Num(imgRect.height)), Num(naturalSize.h)))]

clientToSvg(c) ==
    IF ~FrameValid \/ blueprintImage = NoImage THEN Pt(0, 0)
    ELSE LET relX == c.x - dom.cLeft - imgRect.left
             relY == c.y - dom.cTop - imgRect.top
         IN  [x |-> RMul(RDiv(Num(relX), Num(imgRect.width)), Num(naturalSize.w)),
              y |-> RMul(RDiv(Num(relY), Num(imgRect.height)), Num(naturalSize.h))]

\* handleDragMove's movedPoints
movedPoints(startPoints, startClient, c) ==
    LET dxNat == RMul(RDiv(Num(c.x - startClient.x), Num(imgRect.width)), Num(naturalSize.w))
        dyNat == RMul(RDiv(Num(c.y - startClient.y), Num(imgRect.height)), Num(naturalSize.h))
    IN  [i \in 1..Len(startPoints) |->
            [x |-> RAdd(startPoints[i].x, dxNat), y |-> RAdd(startPoints[i].y, dyNat)]]

Front(s) == SubSeq(s, 1, Len(s) - 1)

\* an undo that drops the point instead of keeping it for a redo
undoStepDrops(b) ==
    IF Len(b.pts) = 0 THEN b
    ELSE [pts |-> Front(b.pts), redo |-> b.redo]

\* the two branches of handleKeyDown, on the pair of buffers
undoStep(b) ==
    IF Len(b.pts) = 0 THEN b
    ELSE [pts |-> Front(b.pts), redo |-> Append(b.redo, b.pts[Len(b.pts)])]

\* a redo that forgets to pop the redo buffer
redoStepKeep(b) ==
    IF Len(b.redo) = 0 THEN b
    ELSE [pts |-> Append(b.pts, b.redo[Len(b.redo)]), redo |-> b.redo]

redoStep(b) ==
    IF Len(b.redo) = 0 THEN b
    ELSE [pts |-> Append(b.pts, b.redo[Len(b.redo)]), redo |-> Front(b.redo)]

\* handleSvgClick, on the pair of buffers
clickStepKeepRedo(b, pos) == [pts |-> Append(b.pts, pos), redo |-> b.redo]

clickStep(b, pos) == [pts |-> Append(b.pts, pos), redo |-> <<>>]

\* a finish that reports the buffer as it is
trimmedNothing(points) == points

\* handleSvgDoubleClick drops the point the second click of the gesture added
trimmed(points) == Front(points)

NoDrag == [startClient |-> Null, startPoints |-> <<>>, objId |-> NoId]

----------------------------------------------------------------------------
\* Effects

\* a reset that leaves the redo buffer alone
ResetKeepsRedo(newActive) ==
    IF (IF isAdmin THEN newActive ELSE NoId) # CanvasActive
    THEN currentPoints' = <<>> /\ mousePos' = Null /\ UNCHANGED redoStack
    ELSE UNCHANGED drawVars

\* useEffect([activeObjectId]) of the canvas, after the page set the identifier
ResetOnActiveChange(newActive) ==
    IF (IF isAdmin THEN newActive ELSE NoId) # CanvasActive
    THEN currentPoints' = <<>> /\ redoStack' = <<>> /\ mousePos' = Null
    ELSE UNCHANGED drawVars

\* useEffect([imageUrl]) of the canvas, and the <img> given a new src: the
\* element keeps presenting the image it has (and its natural size) until the
\* new one has loaded; without a src the element is unmounted
InvalidateOnImageChange(newImage) ==
    IF newImage # blueprintImage
    THEN /\ imgRect' = Null /\ naturalSize' = Null
         /\ imgPending' = (newImage # NoImage)
         /\ imgNatural' = IF newImage = NoImage THEN Null ELSE imgNatural
         /\ UNCHANGED dom
    ELSE UNCHANGED frameVars

\* a measurement that does not look at the natural width
measureImageUnguarded(natural, layout) ==
    /\ imgRect' = measured(layout)
    /\ naturalSize' = natural

\* measureImage, with the image element reporting the given natural size and
\* the browser in the given layout
measureImage(natural, layout) ==
    IF blueprintImage = NoImage \/ natural = Null
    THEN UNCHANGED <<imgRect, naturalSize>>
    ELSE /\ imgRect' = measured(layout)
         /\ naturalSize' = natural

\* The page receiving what a canvas handler emitted, in the order emitted: each
\* notification queues its setObjects updater behind the earlier ones.  A
\* finished notification is logged with the path its updater sees.
RECURSIVE Deliver(_, _, _)
Deliver(objs, steps, log) ==
    IF steps = <<>> THEN [objs |-> objs, log |-> log]
    ELSE LET s == Head(steps) IN
         IF s.t = "pathUpdated"
         THEN Deliver(handlePathUpdate(objs, s.id, s.points), Tail(steps), Append(log, s))
         ELSE IF s.t = "finished"
         THEN Deliver(handleFinishDrawing(objs, s.id), Tail(steps),
                      Append(log, [t |-> "finished", id |-> s.id,
                                   seen |-> IF HasId(objs, s.id)
                                            THEN <<Find(objs, s.id).pathPoints>>
                                            ELSE <<>>]))
         ELSE Deliver(objs, Tail(steps), Append(log, s))

\* a finish that tells the page it is done before it reports the path
finishStepsSwapped(id, points) == <<Finished(id), PathUpdated(id, points), Cleared>>

\* what handleSvgDoubleClick does, in order, when enough points remain
finishSteps(id, points) == <<PathUpdated(id, points), Finished(id), Cleared>>

----------------------------------------------------------------------------
\* Header, AuthModal and the auth backend

\* what the user may type into the sign-in form
Emails == {"a@x", "b@x"}
Passwords == {"123456", "123457"}

\* the account the backend knows
Registered(email, password) == email = "a@x" /\ password = "123456"

EmptyForm == [email |-> "", password |-> "", error |-> ""]

SignInCall(email, password) == [op |-> "signIn", email |-> email, password |-> password]
SignOutCall == [op |-> "signOut"]

\* the modal's onClose as the header passes it
Closed == [t |-> "closed"]

\* handleUserClick: the person icon is shown while nobody is signed in
UserClick ==
    /\ currentUser = Null
    /\ ~showAuthModal
    /\ showAuthModal' = TRUE
    /\ Obs("other", <<>>)
    /\ UNCHANGED <<currentUser, authForm, authCall, authLog, isAdmin, currentUid, persists,
                   toggles, saveVars, isDirty, db, fetching, pageVars, drawVars, dragVars,
                   frameVars>>

\* typing into the email and password fields of the open modal
TypeCredentials(email, password) ==
    /\ showAuthModal
    /\ authCall = Null
    /\ <<email, password>> # <<authForm.email, authForm.password>>
    /\ authForm' = [authForm EXCEPT !.email = email, !.password = password]
    /\ Obs("other", <<>>)
    /\ UNCHANGED <<currentUser, showAuthModal, authCall, authLog, isAdmin, currentUid,
                   persists, toggles, saveVars, isDirty, db, fetching, pageVars, drawVars,
                   dragVars, frameVars>>

\* the call a submit of the form makes to the backend
submitCall(form) == SignInCall(form.email, form.password)

\* submit of the sign-in form
Submit ==
    /\ showAuthModal
    /\ authCall = Null
    /\ authForm.email # "" /\ authForm.password # ""
    /\ Len(authLog) < MaxCalls
    /\ authCall' = submitCall(authForm)
    /\ authLog' = Append(authLog, submitCall(authForm))
    /\ authForm' = [authForm EXCEPT !.error = ""]
    /\ Obs("submit", <<>>)
    /\ UNCHANGED <<currentUser, showAuthModal, isAdmin, currentUid, persists, toggles,
                   saveVars, isDirty, db, fetching, pageVars, drawVars, dragVars, frameVars>>

\* what the modal does when the sign-in is rejected
onSignInFailedCloses == [open |-> FALSE, error |-> "Failed to authenticate", notes |-> <<Closed>>]
onSignInFailed == [open |-> TRUE, error |-> "Failed to authenticate", notes |-> <<>>]

\* the backend accepts the credentials: the user is signed in, the modal
\* calls onClose
SignInOk ==
    /\ authCall # Null /\ authCall.op = "signIn"
    /\ Registered(authCall.email, authCall.password)
    /\ authCall' = Null
    /\ currentUser' = [email |-> authCall.email]
    /\ showAuthModal' = FALSE
    /\ authForm' = EmptyForm
    /\ Obs("signedIn", <<Closed>>)
    /\ UNCHANGED <<authLog, isAdmin, currentUid, persists, toggles, saveVars, isDirty, db,
                   fetching, pageVars, drawVars, dragVars, frameVars>>

\* the backend rejects the sign-in: unknown account, wrong password, or no
\* connection
SignInFail ==
    /\ authCall # Null /\ authCall.op = "signIn"
    /\ authCall' = Null
    /\ showAuthModal' = onSignInFailed.open
    /\ authForm' = [authForm EXCEPT !.error = onSignInFailed.error]
    /\ Obs("signInFailed", onSignInFailed.notes)
    /\ UNCHANGED <<currentUser, authLog, isAdmin, currentUid, persists, toggles, saveVars,
                   isDirty, db, fetching, pageVars, drawVars, dragVars, frameVars>>

\* what the right side of the header shows for a user
userMenu(user) ==
    IF user # Null
    THEN [email |-> user.email, logout |-> TRUE, signIn |-> FALSE]
    ELSE [email |-> "", logout |-> FALSE, signIn |-> TRUE]

\* what leaves handleLogout when the sign-out is rejected
logoutFailureThrown == <<[t |-> "thrown"]>>
logoutFailure == <<[t |-> "logged"]>>

\* onClick of Logout: handleLogout up to its await; logout() of the auth
\* context calls the backend's sign-out
LogoutClick ==
    /\ userMenu(currentUser).logout
    /\ authCall = Null
    /\ Len(authLog) < MaxCalls
    /\ authCall' = SignOutCall
    /\ authLog' = Append(authLog, SignOutCall)
    /\ Obs("logout", <<>>)
    /\ UNCHANGED <<currentUser, showAuthModal, authForm, isAdmin, currentUid, persists,
                   toggles, saveVars, isDirty, db, fetching, pageVars, drawVars, dragVars,
                   frameVars>>

\* the sign-out resolves: the auth context has no user any more
SignOutOk ==
    /\ authCall # Null /\ authCall.op = "signOut"
    /\ authCall' = Null
    /\ currentUser' = Null
    /\ Obs("signedOut", <<>>)
    /\ UNCHANGED <<showAuthModal, authForm, authLog, isAdmin, currentUid, persists, toggles,
                   saveVars, isDirty, db, fetching, pageVars, drawVars, dragVars, frameVars>>

\* the sign-out rejects: handleLogout's catch logs the error
SignOutFail ==
    /\ authCall # Null /\ authCall.op = "signOut"
    /\ authCall' = Null
    /\ Obs("logoutFailed", logoutFailure)
    /\ UNCHANGED <<currentUser, showAuthModal, authForm, authLog, isAdmin, currentUid,
                   persists, toggles, saveVars, isDirty, db, fetching, pageVars, drawVars,
                   dragVars, frameVars>>

----------------------------------------------------------------------------
Init ==
    /\ currentUser = Null
    /\ showAuthModal = FALSE
    /\ authForm = EmptyForm
    /\ authCall = Null
    /\ authLog = <<>>
    /\ isAdmin \in BOOLEAN
    /\ currentUid \in (IF isAdmin THEN {AdminUid} ELSE Viewers)
    /\ db \in Stores(isAdmin)
    /\ blueprintName = ""
    /\ isDirty = FALSE
    /\ saving = FALSE
    /\ saveJob = Null
    /\ deleteJob = Null
    /\ nextDoc = 1
    /\ persists = <<>>
    /\ toggles = 0
    /\ savedBlueprints = <<>>
    /\ fetching = TRUE
    /\ blueprintImage = NoImage
    /\ currentBlueprintId = NoBlueprint
    /\ objects = <<>>
    /\ activeObjectId = NoId
    /\ selectedObjectId = NoId
    /\ loading = FALSE
    /\ nextId = 1
    /\ currentPoints = <<>>
    /\ redoStack = <<>>
    /\ mousePos = Null
    /\ dragging = FALSE
    /\ dragRef = NoDrag
    /\ drags = 0
    /\ imgRect = Null
    /\ naturalSize = Null
    /\ dom \in Layouts
    /\ imgNatural = Null
    /\ imgPending = FALSE
    /\ emitted = <<>>
    /\ lastOp = "other"
    /\ before = Null
    /\ pointer = Null
    /\ finishes = <<>>

----------------------------------------------------------------------------
\* BlueprintCanvas handlers

\* handleKeyDown, Ctrl+Z (window listener)
KeyUndo ==
    /\ IF CanvasActive = NoId
       THEN UNCHANGED drawVars /\ Obs("keyIgnored", <<>>)
       ELSE LET b == undoStep([pts |-> currentPoints, redo |-> redoStack]) IN
            /\ currentPoints' = b.pts
            /\ redoStack' = b.redo
            /\ UNCHANGED mousePos
            /\ Obs(IF currentPoints = <<>> THEN "undoNoop" ELSE "undo", <<>>)
    /\ UNCHANGED <<roleVars, saveVars, isDirty, db, fetching, pageVars, dragVars, frameVars>>

\* handleKeyDown, Ctrl+Shift+Z (window listener)
KeyRedo ==
    /\ IF CanvasActive = NoId
       THEN UNCHANGED drawVars /\ Obs("keyIgnored", <<>>)
       ELSE LET b == redoStep([pts |-> currentPoints, redo |-> redoStack]) IN
            /\ currentPoints' = b.pts
            /\ redoStack' = b.redo
            /\ UNCHANGED mousePos
            /\ Obs(IF redoStack = <<>> THEN "redoNoop" ELSE "redo", <<>>)
    /\ UNCHANGED <<roleVars, saveVars, isDirty, db, fetching, pageVars, dragVars, frameVars>>

\* a click that adds points while a drag session is open
clickIgnoredWhenIdle == CanvasActive = NoId

\* handleSvgClick returns at once when idle or dragging
clickIgnored == CanvasActive = NoId \/ dragging

\* handleSvgClick: a click on the overlay, or on a path while drawing or
\* dragging (the path's onClick returns and the click bubbles)
SvgClick(c) ==
    /\ OverlayHit
    /\ IF clickIgnored
       THEN UNCHANGED drawVars /\ Obs("clickIgnored", <<>>)
       ELSE /\ Len(currentPoints) < MaxPts
            /\ currentPoints' = clickStep(Buffers, clientToSvg(c)).pts
            /\ redoStack' = clickStep(Buffers, clientToSvg(c)).redo
            /\ UNCHANGED mousePos
            /\ Obs("click", <<>>)
    /\ UNCHANGED <<roleVars, saveVars, isDirty, db, fetching, pageVars, dragVars, frameVars>>

\* onClick of a rendered path, neither drawing nor dragging: selection
PathClick(i) ==
    /\ OverlayHit
    /\ Len(objects[i].pathPoints) >= 2
    /\ CanvasActive = NoId /\ ~dragging
    /\ selectedObjectId' = selectIfIdle(objects[i].id)
    /\ Obs("pathClick", <<Selected(objects[i].id)>>)
    /\ UNCHANGED <<roleVars, saveVars, isDirty, db, fetching, savedBlueprints, blueprintImage,
                   currentBlueprintId, objects, activeObjectId, loading, nextId,
                   drawVars, dragVars, frameVars>>

ClickOps == {"click", "clickIgnored", "pathClick"}

\* handleSvgDoubleClick; the browser fires dblclick right after a click
SvgDoubleClick ==
    /\ OverlayHit
    /\ lastOp \in ClickOps
    /\ IF CanvasActive = NoId
       THEN /\ UNCHANGED <<drawVars, objects, activeObjectId, isDirty>>
            /\ Obs("other", <<>>)
       ELSE LET final == trimmed(currentPoints) IN
            IF Len(final) < 2
            THEN /\ currentPoints' = <<>> /\ redoStack' = <<>> /\ mousePos' = Null
                 /\ UNCHANGED <<objects, activeObjectId, isDirty>>
                 /\ Obs("abandon", <<Cleared>>)
            ELSE LET d == Deliver(objects, finishSteps(CanvasActive, final), <<>>) IN
                 /\ objects' = d.objs
                 /\ activeObjectId' = NoId
                 /\ currentPoints' = <<>> /\ redoStack' = <<>> /\ mousePos' = Null
                 /\ isDirty' = dirtied
                 /\ Obs("finish", d.log)
    /\ UNCHANGED <<roleVars, saveVars, db, fetching, savedBlueprints, blueprintImage,
                   currentBlueprintId, selectedObjectId, loading, nextId,
                   dragVars, frameVars>>

\* a press that forgets the viewer's role
pressIgnoredAnyRole == CanvasActive # NoId

\* a press that opens a drag session while a drawing is active
pressIgnoredForWorkers == isWorker

\* a press on a path opens no drag session for a worker, nor while drawing
pressIgnored == isWorker \/ CanvasActive # NoId

\* a drag session that keeps no snapshot of the path
dragStartNoSnapshot(obj, c) == [startClient |-> c, startPoints |-> <<>>, objId |-> obj.id]

\* the session handlePathMouseDown writes to dragRef: obj.pathPoints.map(...)
\* copies every point
dragStart(obj, c) == [startClient |-> c, startPoints |-> obj.pathPoints, objId |-> obj.id]

\* onMouseDown of a rendered path: !isWorker && handlePathMouseDown(e, obj)
PathMouseDown(i, c) ==
    /\ OverlayHit
    /\ Len(objects[i].pathPoints) >= 2
    /\ IF pressIgnored
       THEN UNCHANGED <<selectedObjectId, dragVars>> /\ Obs("downIgnored", <<>>)
       ELSE /\ drags < MaxDrags
            /\ selectedObjectId' = selectIfIdle(objects[i].id)
            /\ dragRef' = dragStart(objects[i], c)
            /\ dragging' = TRUE
            /\ drags' = drags + 1
            /\ ObsAt("down", <<Selected(objects[i].id)>>, c)
    /\ UNCHANGED <<roleVars, saveVars, isDirty, db, fetching, savedBlueprints, blueprintImage,
                   currentBlueprintId, objects, activeObjectId, loading, nextId,
                   drawVars, frameVars>>

\* a drag that moves the path as it is now instead of the snapshot
dragReportRunning(c) ==
    movedPoints(IF HasId(objects, dragRef.objId)
                THEN Find(objects, dragRef.objId).pathPoints ELSE dragRef.startPoints,
                dragRef.startClient, c)

\* the path handleDragMove reports for a pointer at c
dragReport(c) == movedPoints(dragRef.startPoints, dragRef.startClient, c)

\* handleSvgMouseMove, with handleDragMove
SvgMouseMove(c) ==
    /\ OverlayHit
    /\ mousePos' = IF CanvasActive # NoId THEN clientToSvg(c) ELSE mousePos
    /\ IF dragging /\ dragRef.startClient # Null /\ FrameValid /\ isAdmin
       THEN LET d == Deliver(objects, <<PathUpdated(dragRef.objId, dragReport(c))>>, <<>>) IN
            /\ objects' = d.objs
            /\ isDirty' = dirtied
            /\ ObsAt("dragMove", d.log, c)
       ELSE /\ UNCHANGED <<objects, isDirty>>
            /\ Obs("other", <<>>)
    /\ UNCHANGED <<roleVars, saveVars, db, fetching, savedBlueprints, blueprintImage,
                   currentBlueprintId, activeObjectId, selectedObjectId, loading, nextId,
                   currentPoints, redoStack, dragVars, frameVars>>

\* a drag end that clears the session but leaves the flag
handleDragEndKeepsFlag == dragging' = dragging /\ dragRef' = NoDrag

handleDragEnd == dragging' = FALSE /\ dragRef' = NoDrag

\* onMouseUp of the overlay: handleDragEnd
SvgMouseUp ==
    /\ OverlayHit
    /\ handleDragEnd
    /\ Obs(IF dragging THEN "dragEnd" ELSE "other", <<>>)
    /\ UNCHANGED <<roleVars, saveVars, isDirty, db, fetching, pageVars, drawVars, drags, frameVars>>

\* onMouseLeave of the overlay
SvgMouseLeave ==
    /\ OverlayHit
    /\ mousePos' = Null
    /\ IF dragging
       THEN handleDragEnd
       ELSE UNCHANGED <<dragging, dragRef>>
    /\ Obs(IF dragging THEN "dragEnd" ELSE "other", <<>>)
    /\ UNCHANGED <<roleVars, saveVars, isDirty, db, fetching, pageVars, currentPoints, redoStack, drags,
                   frameVars>>

\* onLoad of the image element: measureImage
ImgLoad ==
    /\ imgPending
    /\ imgPending' = FALSE
    /\ imgNatural' = NaturalOf(blueprintImage)
    /\ measureImage(NaturalOf(blueprintImage), dom)
    /\ Obs("measure", <<>>)
    /\ UNCHANGED <<roleVars, saveVars, isDirty, db, fetching, pageVars, drawVars, dragVars, dom>>

\* the image fails to load: the element has no onError, its natural width is 0
ImgError ==
    /\ imgPending
    /\ imgPending' = FALSE
    /\ imgNatural' = Null
    /\ Obs("other", <<>>)
    /\ UNCHANGED <<roleVars, saveVars, isDirty, db, fetching, pageVars, drawVars, dragVars,
                   imgRect, naturalSize, dom>>

\* the ResizeObserver calls measureImage: the browser has laid the page out
\* anew, or the observer, set up again for a new image, reports for the first
\* time
Resize(layout) ==
    /\ layout # dom \/ (blueprintImage # NoImage /\ ~FrameValid)
    /\ dom' = layout
    /\ measureImage(imgNatural, layout)
    /\ Obs(IF blueprintImage # NoImage THEN "measure" ELSE "other", <<>>)
    /\ UNCHANGED <<roleVars, saveVars, isDirty, db, fetching, pageVars, drawVars, dragVars,
                   imgNatural, imgPending>>

----------------------------------------------------------------------------
\* BlueprintViewer handlers

\* fetchBlueprints resolves
FetchBlueprints ==
    /\ fetching
    /\ fetching' = FALSE
    /\ savedBlueprints' = sortByCreated(db)
    /\ Obs("other", <<>>)
    /\ UNCHANGED <<roleVars, saveVars, isDirty, db, blueprintImage, currentBlueprintId, objects,
                   activeObjectId, selectedObjectId, loading, nextId,
                   drawVars, dragVars, frameVars>>

\* window.confirm was shown
Asked == [t |-> "confirm"]

\* the test of loadBlueprint that puts the question
loadAsks == isAdmin /\ isDirty

\* loadBlueprint(bp), the user answering the question when it is put
LoadBlueprint(k, confirms) ==
    LET bp == savedBlueprints[k] IN
    IF loadAsks /\ ~confirms
    THEN /\ Obs("loadDeclined", <<Asked>>)
         /\ UNCHANGED <<roleVars, saveVars, isDirty, db, fetching, pageVars, drawVars,
                        dragVars, frameVars>>
    ELSE /\ activeObjectId' = NoId
         /\ selectedObjectId' = NoId
         /\ blueprintImage' = bp.imageUrl
         /\ currentBlueprintId' = bp.id
         /\ blueprintName' = bp.name
         /\ objects' = loadedObjects(bp)
         /\ isDirty' = FALSE
         /\ ResetOnActiveChange(NoId)
         /\ InvalidateOnImageChange(bp.imageUrl)
         /\ Obs("load", IF loadAsks THEN <<Asked>> ELSE <<>>)
         /\ UNCHANGED <<roleVars, saving, saveJob, deleteJob, nextDoc, db, fetching,
                        savedBlueprints, loading, nextId, dragVars>>

\* handleImageUpload up to its first await
UploadBegin ==
    /\ isAdmin
    /\ ~loading
    /\ loading' = TRUE
    /\ Obs("other", <<>>)
    /\ UNCHANGED <<roleVars, saveVars, isDirty, db, fetching, savedBlueprints, blueprintImage,
                   currentBlueprintId, objects, activeObjectId, selectedObjectId, nextId,
                   drawVars, dragVars, frameVars>>

\* handleImageUpload resumes with the download URL
UploadDone(url) ==
    /\ loading
    /\ url # blueprintImage
    /\ blueprintImage' = url
    /\ currentBlueprintId' = NoBlueprint
    /\ objects' = <<>>
    /\ isDirty' = FALSE
    /\ blueprintName' = IF blueprintName = "" THEN FileName ELSE blueprintName
    /\ loading' = FALSE
    /\ InvalidateOnImageChange(url)
    /\ Obs("uploaded", <<>>)
    /\ UNCHANGED <<roleVars, saving, saveJob, deleteJob, nextDoc, db, fetching, savedBlueprints, activeObjectId,
                   selectedObjectId, nextId, drawVars, dragVars>>

\* handleImageUpload resumes in its catch
UploadFail ==
    /\ loading
    /\ loading' = FALSE
    /\ Obs("other", <<>>)
    /\ UNCHANGED <<roleVars, saveVars, isDirty, db, fetching, savedBlueprints, blueprintImage,
                   currentBlueprintId, objects, activeObjectId, selectedObjectId, nextId,
                   drawVars, dragVars, frameVars>>

\* the active object, when the toolbar can tell its type
ActiveType == IF activeObjectId # NoId /\ HasId(objects, activeObjectId)
              THEN Find(objects, activeObjectId).type ELSE ""

\* startDrawing(type): the draw button of a type not being drawn
StartDrawing(type, maxIds) ==
    /\ isAdmin
    /\ blueprintImage # NoImage
    /\ ActiveType # type
    /\ nextId <= maxIds
    /\ LET id == makeId(Now, nextId)
           kept == IF activeObjectId # NoId
                   THEN cancelUpdater(objects, activeObjectId) ELSE objects
       IN  /\ objects' = Append(kept, [id |-> id, type |-> type, pathPoints |-> <<>>,
                                       assignedTo |-> NoUid, completed |-> FALSE,
                                       drawing |-> TRUE])
           /\ activeObjectId' = id
           /\ selectedObjectId' = id
           /\ ResetOnActiveChange(id)
    /\ nextId' = nextId + 1
    /\ isDirty' = dirtied
    /\ Obs("startDrawing", <<>>)
    /\ UNCHANGED <<roleVars, saveVars, db, fetching, savedBlueprints, blueprintImage,
                   currentBlueprintId, loading, dragVars, frameVars>>

\* cancelActiveDrawing: the draw button of the type being drawn
CancelActiveDrawing ==
    /\ isAdmin
    /\ blueprintImage # NoImage
    /\ ActiveType # ""
    /\ objects' = cancelUpdater(objects, activeObjectId)
    /\ activeObjectId' = NoId
    /\ ResetOnActiveChange(NoId)
    /\ isDirty' = dirtied
    /\ Obs("cancel", <<>>)
    /\ UNCHANGED <<roleVars, saveVars, db, fetching, savedBlueprints, blueprintImage,
                   currentBlueprintId, selectedObjectId, loading, nextId,
                   dragVars, frameVars>>

\* deleteObject(id): the delete button of a section card
DeleteObject(i) ==
    LET id == objects[i].id
        newActive == IF id = activeObjectId THEN NoId ELSE activeObjectId
    IN
    /\ isAdmin
    /\ activeObjectId' = newActive
    /\ selectedObjectId' = IF id = selectedObjectId THEN NoId ELSE selectedObjectId
    /\ objects' = Without(objects, id)
    /\ ResetOnActiveChange(newActive)
    /\ isDirty' = dirtied
    /\ Obs("delete", <<>>)
    /\ UNCHANGED <<roleVars, saveVars, db, fetching, savedBlueprints, blueprintImage,
                   currentBlueprintId, loading, nextId, dragVars, frameVars>>

\* deleteBlueprint(id) up to its await, the user confirming; one deletion at
\* a time
DeleteBlueprintBegin(k) ==
    /\ isAdmin
    /\ deleteJob = Null
    /\ deleteJob' = [id |-> savedBlueprints[k].id, current |-> currentBlueprintId]
    /\ Obs("other", <<>>)
    /\ UNCHANGED <<roleVars, blueprintName, saving, saveJob, nextDoc, isDirty, db, fetching,
                   pageVars, drawVars, dragVars, frameVars>>

\* a list of blueprints without one of them
withoutDoc(list, id) == SelectSeq(list, LAMBDA b : b.id # id)

\* deleteBlueprint: deleteDoc resolves; the page is emptied when the
\* blueprint was the current one of the render that asked
DeleteBlueprintDone ==
    /\ deleteJob # Null
    /\ deleteJob' = Null
    /\ db' = withoutDoc(db, deleteJob.id)
    /\ savedBlueprints' = withoutDoc(savedBlueprints, deleteJob.id)
    /\ IF deleteJob.current = deleteJob.id
       THEN /\ currentBlueprintId' = NoBlueprint
            /\ blueprintName' = ""
            /\ blueprintImage' = NoImage
            /\ objects' = <<>>
            /\ isDirty' = dirtied
            /\ InvalidateOnImageChange(NoImage)
       ELSE UNCHANGED <<currentBlueprintId, blueprintName, blueprintImage, objects, isDirty,
                        frameVars>>
    /\ Obs("deleteBlueprint", <<>>)
    /\ UNCHANGED <<roleVars, saving, saveJob, nextDoc, fetching, activeObjectId,
                   selectedObjectId, loading, nextId, drawVars, dragVars>>

\* deleteBlueprint: deleteDoc rejects
DeleteBlueprintFail ==
    /\ deleteJob # Null
    /\ deleteJob' = Null
    /\ Obs("other", <<>>)
    /\ UNCHANGED <<roleVars, blueprintName, saving, saveJob, nextDoc, isDirty, db, fetching,
                   pageVars, drawVars, dragVars, frameVars>>

\* onChange of the name input
SetName(name) ==
    /\ isAdmin
    /\ name # blueprintName
    /\ blueprintName' = name
    /\ Obs("other", <<>>)
    /\ UNCHANGED <<roleVars, saving, saveJob, deleteJob, nextDoc, isDirty, db, fetching, pageVars,
                   drawVars, dragVars, frameVars>>

\* saveBlueprint up to its first await (the button is disabled while saving or
\* without an image)
SaveBegin ==
    /\ isAdmin
    /\ ~saving
    /\ blueprintImage # NoImage
    /\ IF trim(blueprintName) = ""
       THEN UNCHANGED <<saving, saveJob>> /\ Obs("saveRefused", <<>>)
       ELSE /\ saving' = TRUE
            /\ saveJob' = [name |-> trim(blueprintName), imageUrl |-> blueprintImage,
                           objects |-> storedObjects(objects),
                           id |-> currentBlueprintId, stage |-> "write"]
            /\ Obs("saveBegin", <<>>)
    /\ UNCHANGED <<roleVars, deleteJob, blueprintName, nextDoc, isDirty, db, fetching, pageVars,
                   drawVars, dragVars, frameVars>>

\* saveBlueprint: updateDoc or addDoc resolves, fetchBlueprints is called
SaveWrite ==
    /\ saveJob # Null
    /\ saveJob.stage = "write"
    /\ IF saveJob.id # NoBlueprint
       THEN /\ HasDoc(db, saveJob.id)
            /\ db' = updateDoc(db, saveJob.id, saveJob.name, saveJob.imageUrl,
                               saveJob.objects)
            /\ UNCHANGED <<currentBlueprintId, nextDoc>>
       ELSE /\ nextDoc <= MaxDocs
            /\ db' = Append(db, [id |-> DocId(nextDoc), name |-> saveJob.name,
                                 imageUrl |-> saveJob.imageUrl, createdAt |-> Now,
                                 objects |-> saveJob.objects])
            /\ currentBlueprintId' = DocId(nextDoc)
            /\ nextDoc' = nextDoc + 1
    /\ saveJob' = [saveJob EXCEPT !.stage = "fetch"]
    /\ Obs("other", <<>>)
    /\ UNCHANGED <<roleVars, deleteJob, blueprintName, saving, isDirty, fetching, savedBlueprints,
                   blueprintImage, objects, activeObjectId, selectedObjectId, loading,
                   nextId, drawVars, dragVars, frameVars>>

\* setSaving(false) placed inside the try block
afterSaveInTry(ok) == ~ok

\* the saving flag once saveBlueprint has left its try/catch
afterSave(ok) == FALSE

\* saveBlueprint: updateDoc or addDoc rejects
SaveFail ==
    /\ saveJob # Null
    /\ saveJob.stage = "write"
    /\ saving' = afterSave(FALSE)
    /\ saveJob' = Null
    /\ Obs("saveFailed", <<>>)
    /\ UNCHANGED <<roleVars, deleteJob, blueprintName, nextDoc, isDirty, db, fetching, pageVars,
                   drawVars, dragVars, frameVars>>

\* saveBlueprint: fetchBlueprints returns, with the list or having caught its
\* own error
SaveDone(fetched) ==
    /\ saveJob # Null
    /\ saveJob.stage = "fetch"
    /\ savedBlueprints' = IF fetched THEN sortByCreated(db) ELSE savedBlueprints
    /\ isDirty' = FALSE
    /\ saving' = afterSave(TRUE)
    /\ saveJob' = Null
    /\ Obs("saved", <<>>)
    /\ UNCHANGED <<roleVars, deleteJob, blueprintName, nextDoc, db, fetching, blueprintImage,
                   currentBlueprintId, objects, activeObjectId, selectedObjectId, loading,
                   nextId, drawVars, dragVars, frameVars>>

\* objects with the completion flag of one of them set
withCompleted(objs, id, completed) ==
    [i \in 1..Len(objs) |->
        IF objs[i].id = id THEN [objs[i] EXCEPT !.completed = completed] ELSE objs[i]]

\* a list of blueprints with the objects of one of them replaced
withObjects(list, id, objs) ==
    [k \in 1..Len(list) |->
        IF list[k].id = id THEN [list[k] EXCEPT !.objects = objs] ELSE list[k]]

\* persistCompletion up to its await: the write it asks for, made from the
\* saved list of the render that called it
persistCompletion(objId, completed) ==
    IF \E k \in 1..Len(savedBlueprints) : savedBlueprints[k].id = currentBlueprintId
    THEN LET bp == savedBlueprints[CHOOSE k \in 1..Len(savedBlueprints) :
                                       savedBlueprints[k].id = currentBlueprintId]
         IN  <<[bp |-> currentBlueprintId, objId |-> objId,
                objects |-> withCompleted(bp.objects, objId, completed)]>>
    ELSE <<>>

\* the role test of toggleComplete
toggleRefused(obj) == ~isAdmin /\ obj.assignedTo # currentUid

\* toggleComplete(id), called for an element that is not in progress
ToggleComplete(i) ==
    /\ toggles < MaxToggles
    /\ ~objects[i].drawing
    /\ toggles' = toggles + 1
    /\ IF toggleRefused(objects[i])
       THEN /\ UNCHANGED <<objects, isDirty, persists>>
            /\ Obs("toggleIgnored", <<>>)
       ELSE /\ objects' = withCompleted(objects, objects[i].id, ~objects[i].completed)
            /\ isDirty' = dirtied
            /\ persists' = IF ~isAdmin /\ currentBlueprintId # NoBlueprint
                           THEN persists \o
                                persistCompletion(objects[i].id, ~objects[i].completed)
                           ELSE persists
            /\ Obs("toggle", <<>>)
    /\ UNCHANGED <<authVars, isAdmin, currentUid, saveVars, db, fetching, savedBlueprints,
                   blueprintImage, currentBlueprintId, activeObjectId, selectedObjectId,
                   loading, nextId, drawVars, dragVars, frameVars>>

\* persistCompletion: updateDoc resolves and the saved list is refreshed
PersistWrite(k) ==
    /\ HasDoc(db, persists[k].bp)
    /\ db' = withObjects(db, persists[k].bp, persists[k].objects)
    /\ savedBlueprints' = withObjects(savedBlueprints, persists[k].bp, persists[k].objects)
    /\ persists' = SubSeq(persists, 1, k - 1) \o SubSeq(persists, k + 1, Len(persists))
    /\ Obs("persisted", <<>>)
    /\ UNCHANGED <<authVars, isAdmin, currentUid, toggles, saveVars, isDirty, fetching,
                   blueprintImage, currentBlueprintId, objects, activeObjectId,
                   selectedObjectId, loading, nextId, drawVars, dragVars, frameVars>>

\* persistCompletion: updateDoc rejects, the error is logged
PersistFail(k) ==
    /\ persists' = SubSeq(persists, 1, k - 1) \o SubSeq(persists, k + 1, Len(persists))
    /\ Obs("other", <<>>)
    /\ UNCHANGED <<authVars, isAdmin, currentUid, toggles, saveVars, isDirty, db, fetching,
                   pageVars, drawVars, dragVars, frameVars>>

\* the route of this page and another route of the sidebar
BlueprintPath == "/blueprint"
Paths == {BlueprintPath, "/dashboard"}

\* navigate(href), or the link followed
Navigated(href) == [t |-> "navigate", href |-> href]

\* the document click listener of the unsaved-changes guard takes the click
navInterceptedNever(href) == FALSE
navIntercepted(href) == isAdmin /\ isDirty /\ href # BlueprintPath

\* the route changes: the page is unmounted, and its state is next seen as
\* the useState initial values of its next mount (the module counter stays)
Remount ==
    /\ blueprintName' = ""
    /\ isDirty' = FALSE
    /\ savedBlueprints' = <<>>
    /\ fetching' = TRUE
    /\ blueprintImage' = NoImage
    /\ currentBlueprintId' = NoBlueprint
    /\ objects' = <<>>
    /\ activeObjectId' = NoId
    /\ selectedObjectId' = NoId
    /\ currentPoints' = <<>>
    /\ redoStack' = <<>>
    /\ mousePos' = Null
    /\ dragging' = FALSE
    /\ dragRef' = NoDrag
    /\ imgRect' = Null
    /\ naturalSize' = Null
    /\ imgNatural' = Null
    /\ imgPending' = FALSE
    /\ UNCHANGED <<roleVars, saving, saveJob, deleteJob, nextDoc, db, loading, nextId, drags, dom>>

\* a click on a sidebar link to href while no request of the page is in
\* flight; confirms is the user's answer should window.confirm ask
NavClick(href, confirms) ==
    /\ saveJob = Null /\ deleteJob = Null /\ persists = <<>> /\ ~loading /\ ~fetching
    /\ IF navIntercepted(href)
       THEN IF confirms
            THEN Remount /\ Obs("navConfirmed", <<Navigated(href)>>)
            ELSE /\ Obs("navDeclined", <<>>)
                 /\ UNCHANGED <<roleVars, saveVars, isDirty, db, fetching, pageVars,
                                drawVars, dragVars, frameVars>>
       ELSE IF href # BlueprintPath
            THEN Remount /\ Obs("navPlain", <<Navigated(href)>>)
            ELSE /\ Obs("navPlain", <<Navigated(href)>>)
                 /\ UNCHANGED <<roleVars, saveVars, isDirty, db, fetching, pageVars,
                                drawVars, dragVars, frameVars>>

\* onClick of a section card
CardClick(i) ==
    /\ selectedObjectId' = selectIfIdle(objects[i].id)
    /\ Obs("cardClick", <<>>)
    /\ UNCHANGED <<roleVars, saveVars, isDirty, db, fetching, savedBlueprints, blueprintImage,
                   currentBlueprintId, objects, activeObjectId, loading, nextId,
                   drawVars, dragVars, frameVars>>

----------------------------------------------------------------------------
\* The program: every handler, at any time

Keys == KeyUndo \/ KeyRedo

Pointer(clients) ==
    \/ \E c \in clients : SvgClick(c)
    \/ \E i \in 1..Len(objects) : PathClick(i)
    \/ SvgDoubleClick
    \/ \E c \in clients : SvgMouseMove(c)
    \/ SvgMouseUp
    \/ SvgMouseLeave

Press == \E i \in 1..Len(objects), c \in Clients : PathMouseDown(i, c)

Browse ==
    \/ ImgLoad
    \/ ImgError
    \/ FetchBlueprints
    \/ \E k \in 1..Len(savedBlueprints), confirms \in BOOLEAN : LoadBlueprint(k, confirms)

Cards == \E i \in 1..Len(objects) : CardClick(i)

Relayout == \E layout \in Layouts : Resize(layout)

\* the page stops being displayed
Collapse == \E layout \in Collapsed : Resize(layout)

Upload ==
    \/ UploadBegin
    \/ \E url \in Urls : UploadDone(url)
    \/ UploadFail

Names == {" ", "plan2"}

Save ==
    \/ \E name \in Names : SetName(name)
    \/ SaveBegin
    \/ SaveWrite
    \/ SaveFail
    \/ \E fetched \in BOOLEAN : SaveDone(fetched)

Complete ==
    \/ \E i \in 1..Len(objects) : ToggleComplete(i)
    \/ \E k \in 1..Len(persists) : PersistWrite(k)
    \/ \E k \in 1..Len(persists) : PersistFail(k)

\* toggles whose writes the store accepts
Persisted ==
    \/ \E i \in 1..Len(objects) : ToggleComplete(i)
    \/ \E k \in 1..Len(persists) : PersistWrite(k)

Nav == \E href \in Paths, confirms \in BOOLEAN : NavClick(href, confirms)

Discard ==
    \/ \E k \in 1..Len(savedBlueprints) : DeleteBlueprintBegin(k)
    \/ DeleteBlueprintDone
    \/ DeleteBlueprintFail

Toolbar(maxIds) ==
    \/ \E type \in Types : StartDrawing(type, maxIds)
    \/ CancelActiveDrawing

Remove == \E i \in 1..Len(objects) : DeleteObject(i)

Auth ==
    \/ UserClick
    \/ \E email \in Emails, password \in Passwords : TypeCredentials(email, password)
    \/ Submit
    \/ SignInOk
    \/ SignInFail
    \/ LogoutClick
    \/ SignOutOk
    \/ SignOutFail

Next ==
    \/ Keys \/ Pointer(Clients) \/ Press
    \/ Browse \/ Cards \/ Relayout \/ Upload
    \/ Toolbar(MaxIds) \/ Remove \/ Save \/ Complete \/ Nav \/ Auth
    \/ Discard \/ Collapse

Spec == Init /\ [][Next]_vars

----------------------------------------------------------------------------
\* The program with a user who does only part of what the page offers

\* drawing with the toolbar: no path is pressed, no card is used, the window
\* keeps its size, nothing is uploaded
NextDraw == Keys \/ Pointer(Clients) \/ Browse \/ Toolbar(MaxIds)
SpecDraw == Init /\ [][NextDraw]_vars

\* the same with the cards, the pointer kept in one place and more drawings to
\* switch between
NextSwitch ==
    Keys \/ Pointer(OneClient) \/ Browse \/ Cards \/ Toolbar(MaxIdsSwitch) \/ Remove
SpecSwitch == Init /\ [][NextSwitch]_vars

\* viewing and repositioning: nothing is drawn, deleted or uploaded; this is
\* all a worker can do
NextDrag == Keys \/ Pointer(Clients) \/ Press \/ Browse \/ Cards \/ Relayout
SpecDrag == Init /\ [][NextDrag]_vars

\* drawing and repositioning with the toolbar, the pointer kept in one place
\* while it is over the overlay
NextPress == Keys \/ Pointer(OneClient) \/ Press \/ Browse \/ Toolbar(MaxIds)
SpecPress == Init /\ [][NextPress]_vars

\* viewing while images are replaced and the window is resized
NextFrame == Pointer(OneClient) \/ Browse \/ Relayout \/ Collapse \/ Upload
SpecFrame == Init /\ [][NextFrame]_vars

\* marking elements of a stored blueprint complete
NextComplete == Browse \/ Cards \/ Complete
SpecComplete == Init /\ [][NextComplete]_vars

\* leaving the page by the sidebar, with and without unsaved changes
NextNav == Pointer(OneClient) \/ Browse \/ Cards \/ Toolbar(MaxIds) \/ Complete \/ Nav
SpecNav == Init /\ [][NextNav]_vars

\* signing in and out by the header, the page left alone but for its list
NextAuth == Auth
SpecAuth == Init /\ [][NextAuth]_vars

\* drawing on blueprints that are loaded, uploaded and deleted
NextReplace == Pointer(OneClient) \/ Browse \/ Toolbar(MaxIds) \/ Upload \/ Discard
SpecReplace == Init /\ [][NextReplace]_vars

\* drawing and saving with the toolbar, the pointer kept in one place
NextSave == Pointer(OneClient) \/ Browse \/ Toolbar(MaxIds) \/ Save
SpecSave == Init /\ [][NextSave]_vars

\* editing a stored blueprint: everything but uploads
NextEdit ==
    \/ Keys \/ Pointer(Clients) \/ Press
    \/ Browse \/ Cards \/ Relayout
    \/ Toolbar(MaxIds) \/ Remove
SpecEdit == Init /\ [][NextEdit]_vars

\* saving and uploading, with their requests in flight together
NextStore ==
    \/ FetchBlueprints
    \/ \E k \in 1..Len(savedBlueprints), confirms \in BOOLEAN : LoadBlueprint(k, confirms)
    \/ Upload
    \/ Save
SpecStore == Init /\ [][NextStore]_vars

\* uploads and saves, every request to the store settling at some time
NextBusy == Upload \/ Save
SpecBusy ==
    /\ Init /\ [][NextBusy]_vars
    /\ WF_vars(SaveWrite \/ SaveFail)
    /\ WF_vars(\E fetched \in BOOLEAN : SaveDone(fetched))
    /\ WF_vars((\E url \in Urls : UploadDone(url)) \/ UploadFail)

\* a worker marking elements done, the store accepting every write
NextPersist == Browse \/ Cards \/ Persisted
SpecPersist == Init /\ [][NextPersist]_vars

----------------------------------------------------------------------------
\* Claims

Notes(t) == SelectSeq(emitted, LAMBDA n : n.t = t)
Drawing == CanvasActive # NoId
Distinct(seq) == \A i, j \in 1..Len(seq) : i # j => seq[i] # seq[j]

\* C1: while an annotation is active, an undo of a non-empty point buffer S
\* leaves S without its last point, and the redo that follows it directly
\* restores both buffers to what they were before the undo
C1_UndoRedoRoundTrip ==
    /\ lastOp = "undo" =>
          /\ Len(currentPoints) = Len(before.pts) - 1
          /\ currentPoints = SubSeq(before.pts, 1, Len(before.pts) - 1)
    /\ lastOp = "redo" /\ before # Null =>
          /\ currentPoints = before.pts
          /\ redoStack = before.redo

\* an undo and then a redo of a buffer of two different clicked points
C1_Witness ==
    /\ Drawing
    /\ lastOp = "redo" /\ before # Null
    /\ before.redo = <<>>
    /\ Len(currentPoints) >= 2 /\ currentPoints[1] # currentPoints[2]

\* C2: a point added by a click leaves the redo buffer empty, whatever was
\* undone before, and a redo right after the click changes neither buffer
C2_ClickClearsRedo ==
    /\ [](lastOp = "click" => redoStack = <<>>)
    /\ [][lastOp = "click" /\ lastOp' \in {"redo", "redoNoop"}
            => currentPoints' = currentPoints /\ redoStack' = redoStack]_vars

\* a click right after an undo that had filled the redo buffer
C2_Witness ==
    /\ lastOp = "click" /\ before # Null
    /\ Len(before.pts) >= 1
    /\ redoStack = <<>>

\* C3: a double click on a raw buffer of n >= 3 points finishes the drawing and
\* reports exactly the first n - 1 points, in order
C3_FinishTrimsLast ==
    lastOp \in {"finish", "abandon"} /\ Len(before.pts) >= 3 =>
        /\ lastOp = "finish"
        /\ Len(Notes("pathUpdated")) = 1
        /\ Notes("pathUpdated")[1].points = SubSeq(before.pts, 1, Len(before.pts) - 1)

\* a finish of a buffer whose last two points are the double click's
C3_Witness ==
    /\ lastOp = "finish"
    /\ Len(before.pts) = 3
    /\ before.pts[1] # before.pts[2] /\ before.pts[2] = before.pts[3]
    /\ Notes("pathUpdated")[1].points = <<before.pts[1], before.pts[2]>>

\* C4 (as claimed): a double click that leaves fewer than 2 points removes the
\* active object from the list and emits no drawing-finished notification
C4_AbandonRemovesObject ==
    lastOp = "abandon" =>
        /\ ~HasId(objects, activeObjectId)
        /\ Notes("finished") = <<>>

\* C5: a finish emits path-updated(id, final points), then drawing-finished(id),
\* then clears the buffers and the pointer position; the page's object already
\* has the final points when drawing-finished arrives; no identifier is
\* reported finished twice and nothing but a finish reports one
C5_FinishOrder ==
    /\ lastOp = "finish" =>
          /\ Len(emitted) = 3
          /\ emitted[1].t = "pathUpdated" /\ emitted[2].t = "finished"
          /\ emitted[3] = Cleared
          /\ emitted[1].id = emitted[2].id
          /\ emitted[1].points = trimmed(before.pts)
          /\ \A k \in 1..Len(emitted[2].seen) : emitted[2].seen[k] = emitted[1].points
          /\ currentPoints = <<>> /\ redoStack = <<>> /\ mousePos = Null
          /\ finishes[Len(finishes)] = emitted[2].id
    /\ lastOp # "finish" => Notes("finished") = <<>>
    /\ Distinct(finishes)

\* a finish whose object is in the page's list
C5_Witness ==
    /\ lastOp = "finish"
    /\ emitted[2].seen = <<emitted[1].points>>
    /\ HasId(objects, emitted[2].id)
    /\ Find(objects, emitted[2].id).pathPoints = emitted[1].points

\* C6: every change of the identifier the canvas is given leaves the point
\* buffer and the redo buffer empty and the pointer position unset
C6_ActiveChangeResets ==
    [][CanvasActive' # CanvasActive
         => currentPoints' = <<>> /\ redoStack' = <<>> /\ mousePos' = Null]_vars

\* a switch from one drawing to another with points placed and undone
C6_Witness ==
    /\ lastOp = "startDrawing"
    /\ before.pts # <<>> /\ before.redo # <<>>
    /\ currentPoints = <<>> /\ redoStack = <<>> /\ mousePos = Null

\* C7: for a worker no drag session ever opens and no path-updated
\* notification is ever emitted
C7_WorkerNeverDrags ==
    isWorker =>
        /\ ~dragging
        /\ dragRef = NoDrag
        /\ Notes("pathUpdated") = <<>>

\* a worker has pressed on a rendered path
C7_Witness == isWorker /\ lastOp = "downIgnored"

\* the snapshot moved by the pointer's offset from the drag start, scaled to
\* natural pixels
Translated(snapshot, dx, dy) ==
    [i \in 1..Len(snapshot) |->
        [x |-> RAdd(snapshot[i].x, RDiv(Num(dx * naturalSize.w), Num(imgRect.width))),
         y |-> RAdd(snapshot[i].y, RDiv(Num(dy * naturalSize.h), Num(imgRect.height)))]]

\* C8: every pointer move of a drag session reports the snapshot taken at drag
\* start with every point moved by (dx * naturalW / renderedW,
\* dy * naturalH / renderedH), (dx, dy) being the pointer minus the drag start
C8_DragTranslatesSnapshot ==
    lastOp = "dragMove" =>
        emitted = <<PathUpdated(dragRef.objId,
                                Translated(dragRef.startPoints,
                                           pointer.x - dragRef.startClient.x,
                                           pointer.y - dragRef.startClient.y))>>

\* a drag move away from the start that left the object off its snapshot
C8_Witness ==
    /\ lastOp = "dragMove"
    /\ pointer # dragRef.startClient
    /\ HasId(objects, dragRef.objId)
    /\ Find(objects, dragRef.objId).pathPoints # dragRef.startPoints
    /\ Len(Find(objects, dragRef.objId).pathPoints) = Len(dragRef.startPoints)

\* C9 (as claimed): drawing and dragging are never both true
C9_DrawingXorDragging == ~(Drawing /\ dragging)

\* C10 (as claimed): every click that adds a point, every effective undo and
\* redo, and every drag move emits path-updated with the current path
C10_EveryChangeEmits ==
    /\ lastOp \in {"click", "undo", "redo"} =>
          Notes("pathUpdated") = <<PathUpdated(CanvasActive, currentPoints)>>
    /\ lastOp = "dragMove" => Len(Notes("pathUpdated")) = 1

\* C11 (as claimed): cancelling the active drawing makes the active identifier
\* none; with no point placed the object is removed from the list, with one or
\* more points placed it stays in the list with its in-progress flag false
C11_CancelKeepsStartedPath ==
    [][lastOp' = "cancel" =>
          /\ activeObjectId' = NoId
          /\ IF currentPoints = <<>>
             THEN ~HasId(objects', activeObjectId)
             ELSE /\ HasId(objects', activeObjectId)
                  /\ ~Find(objects', activeObjectId).drawing]_vars

KeyOps == {"undo", "undoNoop", "redo", "redoNoop", "keyIgnored"}

\* C12: an undo or redo key press in the idle state or while a drag session is
\* open changes neither buffer nor the annotation list; the keys change the
\* buffers only while a drawing is in progress
C12_KeysOnlyWhileDrawing ==
    [][lastOp' \in KeyOps =>
          /\ (~Drawing \/ dragging) =>
                /\ currentPoints' = currentPoints
                /\ redoStack' = redoStack
                /\ objects' = objects
          /\ lastOp' \in {"undo", "redo"} => Drawing /\ ~dragging]_vars

\* a key press while a drag session is open on a path and a drawing is active
C12_Witness ==
    /\ lastOp \in {"undoNoop", "redoNoop"}
    /\ dragging /\ Drawing
    /\ dragRef.objId # CanvasActive

\* C13 (as claimed): after the image source changes the frame stays invalid
\* until the new image has loaded and been measured, so a valid frame always
\* holds the natural size of the image now displayed
C13_FrameOfCurrentImage ==
    FrameValid => ~imgPending /\ naturalSize = NaturalOf(blueprintImage)

\* toImageSpace as the specification words it
ToImageSpace(c) ==
    IF ~FrameValid \/ blueprintImage = NoImage THEN [x |-> <<0, 1>>, y |-> <<0, 1>>]
    ELSE [x |-> Rat((c.x - dom.cLeft - imgRect.left) * naturalSize.w, imgRect.width),
          y |-> Rat((c.y - dom.cTop - imgRect.top) * naturalSize.h, imgRect.height)]

Last(seq) == seq[Len(seq)]

\* C14: the conversion returns (0,0) when the frame is not valid or the
\* container is not mounted, and otherwise
\* ((screenX - containerLeft - imageLeft) * naturalW / renderedW,
\*  (screenY - containerTop - imageTop) * naturalH / renderedH); every point a
\* click adds is such a conversion
C14_ToImageSpace ==
    /\ \A c \in Clients : clientToSvg(c) = ToImageSpace(c)
    /\ lastOp = "click" => \E c \in Clients : Last(currentPoints) = ToImageSpace(c)

\* a click converted with different ratios on the two axes
C14_Witness ==
    /\ lastOp = "click"
    /\ FrameValid
    /\ naturalSize.w * imgRect.height # naturalSize.h * imgRect.width
    /\ Last(currentPoints) = ToImageSpace([x |-> 3, y |-> 2])
    /\ Last(currentPoints).x # <<0, 1>> /\ Last(currentPoints).y # <<0, 1>>

\* C15: with a valid frame, a screen point projected to image space and mapped
\* back with the inverse scale and the offsets is the screen point again
C15_RoundTrip ==
    FrameValid /\ blueprintImage # NoImage =>
        /\ \A c \in Clients : svgToClient(clientToSvg(c)) = [x |-> Num(c.x), y |-> Num(c.y)]
        /\ lastOp = "click" =>
              \E c \in Clients : svgToClient(Last(currentPoints)) = [x |-> Num(c.x), y |-> Num(c.y)]

\* a clicked point that is not where it was clicked, with the image offset in
\* its container, drawn back under the pointer
C15_Witness ==
    /\ lastOp = "click"
    /\ FrameValid
    /\ imgRect.left # 0 /\ imgRect.top # 0
    /\ Last(currentPoints) # [x |-> Num(3), y |-> Num(2)]
    /\ svgToClient(Last(currentPoints)) = [x |-> Num(3), y |-> Num(2)]

\* C16 (as claimed): every object of the page's list whose in-progress flag is
\* false has a path of at least 2 points
C16_FinishedHasPath ==
    \A i \in 1..Len(objects) : ~objects[i].drawing => Len(objects[i].pathPoints) >= 2

\* C17 (as claimed): a toggle by a viewer who is not an admin changes the
\* completion flag only of an element assigned to that viewer, and asks for a
\* write only for such an element; an unassigned element is never the viewer's
OwnElement(objs, id) ==
    \E i \in 1..Len(objs) :
        objs[i].id = id /\ objs[i].assignedTo # NoUid /\ objs[i].assignedTo = currentUid

C17_OnlyOwnElements ==
    [][~isAdmin /\ lastOp' \in {"toggle", "toggleIgnored"} =>
          /\ \A i \in 1..Len(objects) :
                objects'[i].completed # objects[i].completed =>
                    OwnElement(objects, objects[i].id)
          /\ \A k \in 1..Len(persists') :
                k > Len(persists) => OwnElement(objects, persists'[k].objId)]_vars

\* C18: with unsaved changes of an admin, a click on a link to another page
\* navigates only when the user confirms; a declined click navigates nowhere
\* and leaves isDirty and the annotation list as they were; for a viewer who
\* is not an admin, or without unsaved changes, the click is not intercepted
\* and the link is followed
NavOps == {"navConfirmed", "navDeclined", "navPlain"}

C18_LeaveOnlyConfirmed ==
    [][LET navs == SelectSeq(emitted', LAMBDA n : n.t = "navigate")
       IN  /\ isAdmin /\ isDirty /\ navs # <<>> /\ navs[1].href # BlueprintPath =>
                lastOp' = "navConfirmed"
           /\ lastOp' = "navDeclined" =>
                navs = <<>> /\ isDirty' = isDirty /\ objects' = objects
           /\ lastOp' \in NavOps /\ (~isAdmin \/ ~isDirty) =>
                lastOp' = "navPlain" /\ navs # <<>>]_vars

C18_Witness == lastOp = "navDeclined" /\ isAdmin /\ isDirty /\ objects # <<>>

\* C19: a pointer release over the overlay, or the pointer leaving it, ends
\* an open drag session: dragging is false and the session's start position,
\* snapshot and object id are cleared; a session opens only by a press, and a
\* pointer move reports a path only while a session is open
C19_DragEnds ==
    [][/\ lastOp' = "dragEnd" => dragging /\ ~dragging' /\ dragRef' = NoDrag
       /\ ~dragging /\ dragging' => lastOp' = "down"
       /\ lastOp' = "dragMove" => dragging /\ dragRef # NoDrag
       /\ ~dragging /\ lastOp' # "finish" =>
             SelectSeq(emitted', LAMBDA n : n.t = "pathUpdated") = <<>>]_vars

C19_Witness == lastOp = "dragEnd" /\ ~dragging /\ dragRef = NoDrag /\ drags > 0

\* C20: a measurement taken while the image element has no natural size (not
\* decoded yet, or failed), or while no image element is mounted, leaves the
\* frame as it was; an invalid frame stays invalid
C20_MeasureNoOp ==
    [][(lastOp' = "measure" \/ dom' # dom)
          /\ (blueprintImage = NoImage \/ imgNatural' = Null) =>
             /\ imgRect' = imgRect /\ naturalSize' = naturalSize
             /\ (~FrameValid => ~FrameValid')]_vars

C20_Witness ==
    /\ lastOp = "measure" /\ blueprintImage # NoImage /\ imgNatural = Null
    /\ ~FrameValid /\ ~imgPending

\* C21: no two objects of the page's list share an identifier, also when the
\* list holds objects of an earlier session whose counter values come again
C21_UniqueIds ==
    \A i, j \in 1..Len(objects) : i # j => objects[i].id # objects[j].id

\* a loaded object and a new one made with the same counter value
C21_Witness ==
    \E i, j \in 1..Len(objects) :
        /\ i # j
        /\ objects[i].id[1] = Earlier /\ objects[j].id[1] = Now
        /\ objects[i].id[2] = objects[j].id[2]

\* C22: a submit of the sign-in form calls the backend with the email and the
\* password entered; the modal's onClose is invoked when, and only when, the
\* sign-in succeeds; a failed sign-in shows an error and leaves the modal open
C22_SignIn ==
    [][/\ lastOp' = "submit" =>
             /\ authCall' = SignInCall(authForm.email, authForm.password)
             /\ authLog' = Append(authLog, authCall')
       /\ lastOp' = "signedIn" =>
             /\ Registered(authCall.email, authCall.password)
             /\ emitted' = <<Closed>> /\ ~showAuthModal'
       /\ lastOp' = "signInFailed" =>
             /\ emitted' = <<>> /\ showAuthModal' /\ authForm'.error # ""
             /\ currentUser' = currentUser
       /\ showAuthModal /\ ~showAuthModal' => lastOp' = "signedIn"]_vars

\* a rejected sign-in with a wrong password for a known account
C22_Witness ==
    /\ lastOp = "signInFailed" /\ showAuthModal /\ authForm.error # ""
    /\ authLog[Len(authLog)] = SignInCall("a@x", "123457")

\* C23: for a signed-in user the header shows the user's email and a Logout
\* button; a click on Logout calls the backend's sign-out; a rejected sign-out
\* is caught in the handler, which lets no error out and changes nothing
C23_Logout ==
    [][/\ currentUser # Null =>
             userMenu(currentUser).email = currentUser.email /\ userMenu(currentUser).logout
       /\ lastOp' = "logout" =>
             /\ currentUser # Null
             /\ authCall' = SignOutCall /\ authLog' = Append(authLog, SignOutCall)
       /\ lastOp' = "logoutFailed" =>
             /\ SelectSeq(emitted', LAMBDA n : n.t = "thrown") = <<>>
             /\ currentUser' = currentUser /\ showAuthModal' = showAuthModal]_vars

\* a rejected sign-out, the user still signed in
C23_Witness == lastOp = "logoutFailed" /\ currentUser # Null /\ authCall = Null

\* how often a point occurs in the two buffers together
Occurrences(pts, redo, p) ==
    Cardinality({i \in 1..Len(pts) : pts[i] = p})
        + Cardinality({i \in 1..Len(redo) : redo[i] = p})

\* C24: while drawing, an undo of an empty point buffer and a redo of an
\* empty redo buffer change neither buffer and emit nothing; an undo moves
\* the last point of the point buffer onto the end of the redo buffer, a redo
\* moves the last point of the redo buffer onto the end of the point buffer;
\* every point occurs in the two buffers together as often after as before
C24_UndoRedoMoveOnePoint ==
    [][/\ lastOp' = "undoNoop" =>
             currentPoints = <<>> /\ UNCHANGED <<currentPoints, redoStack>> /\ emitted' = <<>>
       /\ lastOp' = "redoNoop" =>
             redoStack = <<>> /\ UNCHANGED <<currentPoints, redoStack>> /\ emitted' = <<>>
       /\ lastOp' = "undo" =>
             /\ currentPoints # <<>>
             /\ currentPoints' = Front(currentPoints)
             /\ redoStack' = Append(redoStack, Last(currentPoints))
       /\ lastOp' = "redo" =>
             /\ redoStack # <<>>
             /\ redoStack' = Front(redoStack)
             /\ currentPoints' = Append(currentPoints, Last(redoStack))
       /\ lastOp' \in {"undo", "undoNoop", "redo", "redoNoop"} =>
             /\ Drawing
             /\ \A i \in 1..Len(currentPoints \o redoStack) :
                   LET p == (currentPoints \o redoStack)[i] IN
                   Occurrences(currentPoints', redoStack', p)
                       = Occurrences(currentPoints, redoStack, p)
             /\ Len(currentPoints') + Len(redoStack') = Len(currentPoints) + Len(redoStack)]_vars

\* an undo with both buffers holding points, one point in both of them
C24_Witness ==
    /\ lastOp = "undo" /\ Drawing
    /\ Len(currentPoints) >= 1 /\ Len(redoStack) >= 2
    /\ \E i \in 1..Len(currentPoints), j \in 1..Len(redoStack) : currentPoints[i] = redoStack[j]

\* C25: a press on a path while an annotation is active opens no drag
\* session, emits nothing, and leaves the drag state, the selection and the
\* list as they were; the click that follows selects nothing and is handled
\* as a click on the overlay: with no drag session open it adds its point
C25_PressWhileDrawing ==
    [][/\ lastOp' \in {"down", "downIgnored"} /\ Drawing =>
             /\ lastOp' = "downIgnored"
             /\ emitted' = <<>>
             /\ UNCHANGED <<dragging, dragRef, drags, selectedObjectId, objects>>
       /\ lastOp = "downIgnored" /\ Drawing /\ lastOp' \in ClickOps =>
             /\ lastOp' # "pathClick"
             /\ SelectSeq(emitted', LAMBDA n : n.t = "selected") = <<>>
             /\ ~dragging =>
                   /\ lastOp' = "click"
                   /\ Front(currentPoints') = currentPoints
                   /\ redoStack' = <<>>]_vars

\* a press on a stored path in the middle of a drawing, points placed and undone
C25_Witness ==
    /\ lastOp = "downIgnored" /\ Drawing /\ ~dragging
    /\ currentPoints # <<>> /\ redoStack # <<>>
    /\ Len(currentPoints) < MaxPts

\* C26: a press by an admin on a finished path while nothing is active emits
\* object-selected for the object and opens a drag session that starts at the
\* press position with the object's path of that moment as its snapshot; the
\* snapshot stays as taken while the session is open, whatever becomes of the
\* object's path, and the press itself leaves the list as it was
C26_PressOpensSession ==
    [][/\ lastOp' \in {"down", "downIgnored"} /\ ~Drawing /\ isAdmin =>
             /\ lastOp' = "down"
             /\ Len(emitted') = 1 /\ emitted'[1].t = "selected"
             /\ HasId(objects, emitted'[1].id)
             /\ dragging'
             /\ dragRef'.objId = emitted'[1].id
             /\ dragRef'.startClient = pointer'
             /\ dragRef'.startPoints = Find(objects, dragRef'.objId).pathPoints
             /\ objects' = objects
       /\ dragging /\ dragging' /\ lastOp' # "down" =>
             dragRef'.startPoints = dragRef.startPoints]_vars

\* a session whose object has moved away from the snapshot
C26_Witness ==
    /\ dragging /\ lastOp = "dragMove"
    /\ HasId(objects, dragRef.objId)
    /\ dragRef.startPoints = StoredObject("w1").pathPoints
    /\ Find(objects, dragRef.objId).pathPoints # dragRef.startPoints

\* C27: for a viewer who is not an admin isDirty is false in every state, so
\* the unsaved-changes guard takes no click of such a viewer
C27_WorkerNeverDirty ==
    ~isAdmin => ~isDirty /\ \A href \in Paths : ~navIntercepted(href)

\* a worker has changed the list by marking an own element complete
C27_Witness ==
    /\ ~isAdmin /\ lastOp = "toggle"
    /\ \E i \in 1..Len(objects) : objects[i].completed /\ objects[i].assignedTo = currentUid

\* C28 (as claimed): whenever the active identifier is set, the list holds an
\* object with that identifier, and that object is in progress
C28_ActiveIsInList ==
    activeObjectId # NoId =>
        HasId(objects, activeObjectId) /\ Find(objects, activeObjectId).drawing

\* C29: at most one object of the list is in progress; an object in progress
\* has the active identifier; with no identifier active no object is in
\* progress
C29_OneInProgress ==
    /\ \A i, j \in 1..Len(objects) : objects[i].drawing /\ objects[j].drawing => i = j
    /\ \A i \in 1..Len(objects) : objects[i].drawing => objects[i].id = activeObjectId
    /\ activeObjectId = NoId => \A i \in 1..Len(objects) : ~objects[i].drawing

\* a second drawing started while the first had points placed
C29_Witness ==
    /\ lastOp = "startDrawing" /\ before.pts # <<>>
    /\ Len(objects) >= 2
    /\ \E i \in 1..Len(objects) : objects[i].drawing

\* C30: whenever no identifier is active, the canvas's point buffer and redo
\* buffer are both empty; a point is added, undone or redone only while an
\* identifier is active, and every step that leaves drawing empties both
C30_IdleBuffersEmpty ==
    /\ [](activeObjectId = NoId => currentPoints = <<>> /\ redoStack = <<>>)
    /\ [][/\ lastOp' \in {"click", "undo", "redo"} =>
                activeObjectId # NoId /\ activeObjectId' = activeObjectId
          /\ activeObjectId # NoId /\ activeObjectId' = NoId =>
                /\ lastOp' \in {"finish", "cancel", "delete", "load"}
                /\ currentPoints' = <<>> /\ redoStack' = <<>>]_vars

\* a cancel that found points placed and points undone
C30_Witness ==
    /\ activeObjectId = NoId /\ lastOp = "cancel"
    /\ before.pts # <<>> /\ before.redo # <<>>

----------------------------------------------------------------------------
\* C31: whenever an annotation identifier is active, the selected identifier
\* equals it: starting a drawing selects the new object, and while a drawing
\* is active neither a canvas selection nor a section-card click changes the
\* selection.
SelectOps == {"cardClick", "pathClick"}

C31_SelectedIsActive ==
    /\ [](activeObjectId # NoId => selectedObjectId = activeObjectId)
    /\ [][/\ lastOp' = "startDrawing"
              => activeObjectId' # NoId /\ selectedObjectId' = activeObjectId'
                 /\ HasId(objects', activeObjectId')
          /\ lastOp' \in SelectOps /\ activeObjectId # NoId
              => selectedObjectId' = selectedObjectId]_vars

\* a section card of another element was clicked while a drawing was active
C31_Witness ==
    /\ lastOp = "cardClick"
    /\ activeObjectId # NoId
    /\ \E i \in 1..Len(objects) : objects[i].id # activeObjectId

----------------------------------------------------------------------------
\* C32: for an admin, isDirty false means that the annotation list equals
\* what was last written to the store: an edit made while a save is in
\* flight leaves isDirty true once that save has completed.
Record(store, id) == store[CHOOSE k \in 1..Len(store) : store[k].id = id]

C32_CleanMeansSaved ==
    isAdmin /\ ~isDirty /\ saveJob = Null
        /\ currentBlueprintId # NoBlueprint /\ HasDoc(db, currentBlueprintId)
    => storedObjects(objects) = Record(db, currentBlueprintId).objects

----------------------------------------------------------------------------
\* C33: when a worker has toggled completion on two different own elements
\* of a saved blueprint and both persist operations have completed, in either
\* order, the stored record has the completion flags the page shows for both
\* elements.
TwoToggled ==
    /\ isWorker /\ toggles = 2 /\ persists = <<>>
    /\ currentBlueprintId # NoBlueprint /\ HasDoc(db, currentBlueprintId)
    /\ Len(objects) = 2
    /\ \A i \in 1..2 : objects[i].assignedTo = currentUid /\ objects[i].completed

C33_BothPersisted ==
    TwoToggled => storedObjects(objects) = Record(db, currentBlueprintId).objects

----------------------------------------------------------------------------
\* C34: whenever currentBlueprintId is set and neither a save nor an upload
\* is in flight, the stored record with that id has the image URL that the
\* page displays; an image uploaded while a first save is in flight is never
\* left attached to the id of the record created for the previous image.
C34_RecordHasShownImage ==
    currentBlueprintId # NoBlueprint /\ saveJob = Null /\ ~loading
        /\ HasDoc(db, currentBlueprintId)
    => Record(db, currentBlueprintId).imageUrl = blueprintImage

----------------------------------------------------------------------------
\* C35: whenever an admin's annotation list with unsaved changes is replaced
\* or emptied by loading a blueprint or by uploading an image, the user was
\* asked to confirm first; when the user declines, the blueprint name, the
\* image, the current id, the annotation list, the active and selected
\* identifiers and isDirty are unchanged.
C35_ConfirmBeforeReplace ==
    [][/\ (isAdmin /\ isDirty /\ lastOp' \in {"load", "uploaded"})
           => (\E n \in 1..Len(emitted') : emitted'[n] = Asked)
       /\ lastOp' = "loadDeclined"
           => UNCHANGED <<blueprintName, blueprintImage, currentBlueprintId, objects,
                          activeObjectId, selectedObjectId, isDirty>>]_vars

----------------------------------------------------------------------------
\* C36: after an admin loads a blueprint, uploads an image or deletes the
\* blueprint that is loaded, isDirty is false, and isDirty becomes true again
\* only with the next change to the annotation list.
EditOps == {"finish", "dragMove", "startDrawing", "cancel", "delete", "toggle"}

DeletesLoaded ==
    /\ lastOp' = "deleteBlueprint"
    /\ deleteJob.id = currentBlueprintId /\ deleteJob.current = deleteJob.id

C36_CleanAfterReplace ==
    [][/\ (isAdmin /\ (lastOp' \in {"load", "uploaded"} \/ DeletesLoaded)) => ~isDirty'
       /\ (~isDirty /\ isDirty') => lastOp' \in EditOps]_vars

----------------------------------------------------------------------------
\* C37: every save attempt and every image upload eventually returns its
\* busy flag (saving, loading) to false, whether the store operation
\* succeeds or fails; a save with a blank name (or without an image) writes
\* nothing to the store and never sets the saving flag.
C37_BusyFlagsReturn ==
    /\ saving ~> ~saving
    /\ loading ~> ~loading
    /\ [][/\ lastOp' = "saveRefused"
              => trim(blueprintName) = "" /\ ~saving' /\ saveJob' = Null /\ db' = db
          /\ (~saving /\ saving')
              => blueprintImage # NoImage /\ trim(blueprintName) # ""
          /\ db' # db => saveJob # Null /\ saveJob.name # "" /\ saveJob.imageUrl # NoImage]_vars

\* a save whose write was rejected has returned the flag
C37_Witness == lastOp = "saveFailed" /\ ~saving /\ saveJob = Null

----------------------------------------------------------------------------
\* C38: whenever the Geometry Frame is valid, its rendered width and height
\* are strictly positive, so that no conversion divides by zero and every
\* point of the point buffer and of a reported path has finite coordinates.
Finite(p) == p.x[2] > 0 /\ p.y[2] > 0

C38_PositiveRenderedSize ==
    /\ FrameValid => imgRect.width > 0 /\ imgRect.height > 0
    /\ \A i \in 1..Len(currentPoints) : Finite(currentPoints[i])
    /\ \A n \in 1..Len(Notes("pathUpdated")) :
          \A i \in 1..Len(Notes("pathUpdated")[n].points) :
              Finite(Notes("pathUpdated")[n].points[i])

====
